---- MODULE Spec2Model ----
(***************************************************************************)
(* Model of acpcModule1.py: the pure function getMatrixToACPC, the widget  *)
(* acpcModule1Widget (selectors, check box, Apply button) and myLogic.run. *)
(*                                                                         *)
(* Real numbers are exact.  Every value the program computes from integer  *)
(* landmark coordinates has the form n*sqrt(r)/d, so a number is the tuple *)
(* <<n, d, r>> in canonical form (d > 0, gcd(n,d) = 1, r square-free,      *)
(* zero = <<0,1,1>>).  IEEE non-finite values are kept: NaN = <<0,0,0>>,   *)
(* +Inf = <<1,0,0>>, -Inf = <<-1,0,0>>.                                    *)
(***************************************************************************)
EXTENDS Integers, Sequences, FiniteSets, TLC

VARIABLES ac, pc, ih, matrix, swapped,
          fids, fidParent, volParent, volBaked, tfmMatrix,
          acpcSel, volSel, outSel, autoHarden, applyEnabled,
          pos, raised, log

vars == <<ac, pc, ih, matrix, swapped,
          fids, fidParent, volParent, volBaked, tfmMatrix,
          acpcSel, volSel, outSel, autoHarden, applyEnabled,
          pos, raised, log>>

(* ---------------- bounds ---------------- *)
MaxCoord == 1
MaxFid == 4
MaxA == 10
MaxC == 10

(* ---------------- exact arithmetic with IEEE non-finite values -------- *)
Abs(x) == IF x < 0 THEN -x ELSE x

Sgn(x) == IF x < 0 THEN -1 ELSE IF x > 0 THEN 1 ELSE 0

RECURSIVE GCD(_, _)
GCD(a, b) == IF b = 0 THEN a ELSE GCD(b, a % b)

RECURSIVE SquarePart(_, _)
SquarePart(r, t) ==
  IF t * t > r THEN 1
  ELSE IF r % (t * t) = 0 THEN t * SquarePart(r \div (t * t), t)
  ELSE SquarePart(r, t + 1)

NaN == <<0, 0, 0>>

Inf(s) == <<s, 0, 0>>

Zero == <<0, 1, 1>>

One == <<1, 1, 1>>

IsFinite(x) == x[2] # 0

IsNaN(x) == x = NaN

IsInf(x) == x[2] = 0 /\ x[1] # 0

\* n*sqrt(r)/d with d > 0 and r > 0, in canonical form
Num(n, d, r) ==
  IF n = 0 THEN Zero
  ELSE LET s == SquarePart(r, 2)
           m == n * s
           g == GCD(Abs(m), d)
       IN  <<m \div g, d \div g, r \div (s * s)>>

\* a Python int or float holding an integer value
IntNum(i) == <<i, 1, 1>>

Neg(x) == <<-x[1], x[2], x[3]>>

Mul(x, y) ==
  IF IsNaN(x) \/ IsNaN(y) THEN NaN
  ELSE IF IsInf(x) \/ IsInf(y)
       THEN (IF x[1] = 0 \/ y[1] = 0 THEN NaN ELSE Inf(Sgn(x[1]) * Sgn(y[1])))
  ELSE Num(x[1] * y[1], x[2] * y[2], x[3] * y[3])

\* numpy true division: 0/0 is nan and x/0 is +-inf, with a warning and no exception
Div(x, y) ==
  IF IsNaN(x) \/ IsNaN(y) THEN NaN
  ELSE IF IsInf(x) THEN (IF IsInf(y) THEN NaN
                         ELSE Inf(x[1] * (IF y[1] < 0 THEN -1 ELSE 1)))
  ELSE IF IsInf(y) THEN Zero
  ELSE IF y[1] = 0 THEN (IF x[1] = 0 THEN NaN ELSE Inf(Sgn(x[1])))
  ELSE Num(x[1] * y[2] * Sgn(y[1]), x[2] * Abs(y[1]) * y[3], x[3] * y[3])

\* the sum of two finite numbers is of the form n*sqrt(r)/d only when they
\* share the radical r (or one is zero); the program adds no other pair
Add(x, y) ==
  IF IsNaN(x) \/ IsNaN(y) THEN NaN
  ELSE IF IsInf(x) THEN (IF IsInf(y) /\ y[1] # x[1] THEN NaN ELSE x)
  ELSE IF IsInf(y) THEN y
  ELSE IF x[1] = 0 THEN y
  ELSE IF y[1] = 0 THEN x
  ELSE IF x[3] = y[3] THEN Num(x[1] * y[2] + y[1] * x[2], x[2] * y[2], x[3])
  ELSE CHOOSE z \in {} : TRUE

Sub(x, y) == Add(x, Neg(y))

\* square root of a rational (every argument of sqrt in the program is a sum of squares)
Sqrt(x) ==
  IF IsNaN(x) THEN NaN
  ELSE IF IsInf(x) THEN (IF x[1] > 0 THEN x ELSE NaN)
  ELSE IF x[1] < 0 THEN NaN
  ELSE IF x[1] = 0 THEN Zero
  ELSE IF x[3] = 1 THEN Num(1, x[2], x[1] * x[2])
  ELSE CHOOSE z \in {} : TRUE

Half == Num(1, 2, 1)

(* ---------------- numpy vector operations ---------------- *)
Point(i, j, k) == <<IntNum(i), IntNum(j), IntNum(k)>>

VSub(a, b) == [i \in 1..3 |-> Sub(a[i], b[i])]

VNeg(a) == [i \in 1..3 |-> Neg(a[i])]

\* vector / scalar
VDiv(a, s) == [i \in 1..3 |-> Div(a[i], s)]

\* np.dot(vector, scalar) is the product vector * scalar
VScale(a, s) == [i \in 1..3 |-> Mul(a[i], s)]

\* np.dot of two 1-d arrays
Dot(a, b) == Add(Add(Mul(a[1], b[1]), Mul(a[2], b[2])), Mul(a[3], b[3]))

\* np.linalg.norm of a 1-d array
Norm(a) == Sqrt(Dot(a, a))

\* np.cross
Cross(a, b) ==
  << Sub(Mul(a[2], b[3]), Mul(a[3], b[2])),
     Sub(Mul(a[3], b[1]), Mul(a[1], b[3])),
     Sub(Mul(a[1], b[2]), Mul(a[2], b[1])) >>

\* np.dot(3x3 matrix, vector)
MatVec(m, v) == [i \in 1..3 |-> Dot(m[i], v)]

(* ---------------- getMatrixToACPC ---------------- *)
pcAc(a, p) == VSub(a, p)

\* the direction taken from ac to pc instead of from pc to ac
yAxis_reversed(a, p) == VDiv(VSub(p, a), Norm(VSub(p, a)))

yAxis(a, p) == VDiv(pcAc(a, p), Norm(pcAc(a, p)))

acIhDir(a, h) == VSub(h, a)

\* the cross product left unnormalised
xAxis_unnormalised(a, p, h) == Cross(yAxis(a, p), acIhDir(a, h))

xAxis(a, p, h) ==
  LET x == Cross(yAxis(a, p), acIhDir(a, h))
  IN  VDiv(x, Norm(x))

\* the operands of the cross product exchanged
zAxis_flipped(a, p, h) == Cross(yAxis(a, p), xAxis(a, p, h))

zAxis(a, p, h) == Cross(xAxis(a, p, h), yAxis(a, p))

rotation(a, p, h) == <<xAxis(a, p, h), yAxis(a, p), zAxis(a, p, h)>>

\* the half distance added to ac instead of subtracted from it
translation_signError(a, p, h) ==
  VNeg(MatVec(rotation(a, p, h),
              VSub(a, VNeg(VScale(yAxis(a, p), Mul(Half, Norm(pcAc(a, p))))))))

\* the script repository's translation, which puts the origin at AC
translation_toAC(a, p, h) == VNeg(MatVec(rotation(a, p, h), a))

translation(a, p, h) ==
  VNeg(MatVec(rotation(a, p, h),
              VSub(a, VScale(yAxis(a, p), Mul(Half, Norm(pcAc(a, p)))))))

\* np.eye(4)
Identity ==
  << <<One, Zero, Zero, Zero>>, <<Zero, One, Zero, Zero>>,
     <<Zero, Zero, One, Zero>>, <<Zero, Zero, Zero, One>> >>

\* np.eye(4) with its top-left 3x3 block and its last column overwritten
getMatrixToACPC(a, p, h) ==
  LET R == rotation(a, p, h)
      t == translation(a, p, h)
  IN  << <<R[1][1], R[1][2], R[1][3], t[1]>>,
         <<R[2][1], R[2][2], R[2][3], t[2]>>,
         <<R[3][1], R[3][2], R[3][3], t[3]>>,
         Identity[4] >>

\* the image of the point p under the 4x4 homogeneous matrix m
TransformPoint(m, p) ==
  [i \in 1..3 |->
     Add(Add(Add(Mul(m[i][1], p[1]), Mul(m[i][2], p[2])), Mul(m[i][3], p[3])), m[i][4])]

(* ---------------- state shared by the specifications ---------------- *)
\* a Python local that has not been assigned, or a result not yet returned
Unbound == <<>>

None == "None"

\* the widget after setup() with nothing selected and an empty scene
SceneIdle ==
  /\ fids = <<>> /\ fidParent = None /\ volParent = None /\ volBaked = Unbound
  /\ tfmMatrix = Identity
  /\ acpcSel = None /\ volSel = None /\ outSel = None
  /\ autoHarden = TRUE /\ applyEnabled = FALSE
  /\ pos = "idle" /\ raised = "" /\ log = <<>>

sceneVars ==
  <<fids, fidParent, volParent, volBaked, tfmMatrix,
    acpcSel, volSel, outSel, autoHarden, applyEnabled, pos, raised, log>>

(* ---------------- the pure function on its own ---------------- *)
Cube == {Point(i, j, k) : i \in 0..MaxCoord, j \in 0..MaxCoord, k \in 0..MaxCoord}

MathInit ==
  /\ ac \in Cube /\ pc \in Cube /\ ih \in Cube
  /\ matrix = Unbound /\ swapped = Unbound
  /\ SceneIdle

CallGetMatrix ==
  /\ matrix = Unbound
  /\ matrix' = getMatrixToACPC(ac, pc, ih)
  /\ UNCHANGED <<ac, pc, ih, swapped, sceneVars>>

\* the same call with the first two arguments exchanged
CallSwapped ==
  /\ swapped = Unbound
  /\ swapped' = getMatrixToACPC(pc, ac, ih)
  /\ UNCHANGED <<ac, pc, ih, matrix, sceneVars>>

MathNext == CallGetMatrix \/ CallSwapped

MathSpec == MathInit /\ [][MathNext]_vars

\* landmarks that are already in ACPC alignment
AlignedInit ==
  /\ \E a \in 1..MaxA, c \in 1..MaxC :
       /\ ac = Point(0, a, 0) /\ pc = Point(0, -a, 0) /\ ih = Point(0, 0, c)
  /\ matrix = Unbound /\ swapped = Unbound
  /\ SceneIdle

AlignedSpec == AlignedInit /\ [][MathNext]_vars

(* ---------------- the widget and myLogic.run ---------------- *)
Landmarks == {Point(0, 0, 0), Point(0, 1, 0), Point(0, 0, 1)}

RECURSIVE SeqsUpTo(_, _)
SeqsUpTo(S, n) ==
  IF n = 0 THEN {<<>>}
  ELSE LET shorter == SeqsUpTo(S, n - 1)
       IN  shorter \cup {Append(q, x) : q \in {t \in shorter : Len(t) = n - 1}, x \in S}

\* setup(): the check box is checked, the locals of run do not exist, and
\* the trailing self.onSelect() sets the Apply button from the two selectors
Init ==
  /\ fids \in SeqsUpTo(Landmarks, MaxFid)
  /\ fidParent = None /\ volParent = None /\ volBaked = Unbound
  /\ tfmMatrix = Identity
  /\ acpcSel \in {None, "F"} /\ volSel \in {None, "V"} /\ outSel \in {None, "T"}
  /\ autoHarden = TRUE
  /\ applyEnabled = (acpcSel # None /\ volSel # None)
  /\ pos = "idle" /\ raised = "" /\ log = <<>>
  /\ ac = Unbound /\ pc = Unbound /\ ih = Unbound
  /\ matrix = Unbound /\ swapped = Unbound

locals == <<ac, pc, ih, matrix>>

nodes == <<fids, fidParent, volParent, volBaked, tfmMatrix>>

selection == <<acpcSel, volSel, outSel, autoHarden, applyEnabled>>

\* the markups selector changes its current node; no slot is connected to it
SelectMarkups ==
  /\ pos = "idle"
  /\ acpcSel' = (IF acpcSel = None THEN "F" ELSE None)
  /\ UNCHANGED <<locals, swapped, nodes, volSel, outSel, autoHarden, applyEnabled,
                 pos, raised, log>>

\* the volume selector changes its current node; currentNodeChanged calls onSelect
onSelect ==
  /\ pos = "idle"
  /\ volSel' = (IF volSel = None THEN "V" ELSE None)
  /\ applyEnabled' = (acpcSel # None /\ volSel' # None)
  /\ UNCHANGED <<locals, swapped, nodes, acpcSel, outSel, autoHarden, pos, raised, log>>

SelectOutput ==
  /\ pos = "idle"
  /\ outSel' = (IF outSel = None THEN "T" ELSE None)
  /\ UNCHANGED <<locals, swapped, nodes, acpcSel, volSel, autoHarden, applyEnabled,
                 pos, raised, log>>

ToggleAutoHarden ==
  /\ pos = "idle"
  /\ autoHarden' = ~autoHarden
  /\ UNCHANGED <<locals, swapped, nodes, acpcSel, volSel, outSel, applyEnabled,
                 pos, raised, log>>

\* a click on the enabled Apply button enters myLogic.run with the current
\* nodes; the widget handles no other event until run returns or raises
onApplyButton ==
  /\ pos = "idle" /\ applyEnabled
  /\ pos' = "read" /\ raised' = "" /\ log' = <<>>
  /\ ac' = Unbound /\ pc' = Unbound /\ ih' = Unbound /\ matrix' = Unbound
  /\ UNCHANGED <<swapped, nodes, selection>>

Raise(e) == pos' = "raised" /\ raised' = e /\ UNCHANGED log

Step(name, next) == pos' = next /\ log' = Append(log, name) /\ UNCHANGED raised

\* the loop over range(acpcFid.GetNumberOfFiducials())
ReadPoints ==
  /\ pos = "read"
  /\ IF acpcSel = None
     THEN Raise("AttributeError") /\ UNCHANGED <<ac, pc, ih>>
     ELSE /\ ac' = (IF Len(fids) >= 1 THEN fids[1] ELSE Unbound)
          /\ pc' = (IF Len(fids) >= 2 THEN fids[2] ELSE Unbound)
          /\ ih' = (IF Len(fids) >= 3 THEN fids[3] ELSE Unbound)
          /\ Step("read", "compute")
  /\ UNCHANGED <<matrix, swapped, nodes, selection>>

\* matrix = getMatrixToACPC(ac, pc, ih) and its copy into a vtkMatrix4x4
ComputeMatrix ==
  /\ pos = "compute"
  /\ IF ac = Unbound \/ pc = Unbound \/ ih = Unbound
     THEN Raise("UnboundLocalError") /\ UNCHANGED matrix
     ELSE matrix' = getMatrixToACPC(ac, pc, ih) /\ Step("compute", "setMatrix")
  /\ UNCHANGED <<ac, pc, ih, swapped, nodes, selection>>

\* transformNode.SetAndObserveMatrixTransformToParent(vtkMatrix)
SetMatrix ==
  /\ pos = "setMatrix"
  /\ IF outSel = None
     THEN Raise("AttributeError") /\ UNCHANGED tfmMatrix
     ELSE tfmMatrix' = matrix /\ Step("setMatrix", "attachMarkups")
  /\ UNCHANGED <<locals, swapped, fids, fidParent, volParent, volBaked, selection>>

\* acpcFid.SetAndObserveTransformNodeID(transformNode.GetID())
AttachMarkups ==
  /\ pos = "attachMarkups"
  /\ fidParent' = outSel
  /\ Step("attachMarkups", "attachVolume")
  /\ UNCHANGED <<locals, swapped, fids, volParent, volBaked, tfmMatrix, selection>>

\* volumeNode.SetAndObserveTransformNodeID(transformNode.GetID())
AttachVolume ==
  /\ pos = "attachVolume"
  /\ IF volSel = None
     THEN Raise("AttributeError") /\ UNCHANGED volParent
     ELSE volParent' = outSel /\ Step("attachVolume", "harden")
  /\ UNCHANGED <<locals, swapped, fids, fidParent, volBaked, tfmMatrix, selection>>

\* the autoHarden argument ignored
Harden_always ==
  /\ pos = "harden"
  /\ fids' = [i \in 1..Len(fids) |-> TransformPoint(tfmMatrix, fids[i])]
  /\ fidParent' = None
  /\ volBaked' = tfmMatrix
  /\ volParent' = None
  /\ pos' = "done"
  /\ log' = log \o <<"hardenMarkups", "hardenVolume">>
  /\ UNCHANGED <<locals, swapped, tfmMatrix, selection, raised>>

\* hardenTransform bakes the parent transform of a node into the node and
\* detaches the node from it
Harden ==
  /\ pos = "harden"
  /\ IF autoHarden
     THEN /\ fids' = [i \in 1..Len(fids) |-> TransformPoint(tfmMatrix, fids[i])]
          /\ fidParent' = None
          /\ volBaked' = tfmMatrix
          /\ volParent' = None
          /\ pos' = "done"
          /\ log' = log \o <<"hardenMarkups", "hardenVolume">>
     ELSE pos' = "done" /\ UNCHANGED <<fids, fidParent, volBaked, volParent, log>>
  /\ UNCHANGED <<locals, swapped, tfmMatrix, selection, raised>>

\* run returns, or its exception reaches the event loop
Return ==
  /\ pos \in {"done", "raised"}
  /\ pos' = "idle"
  /\ UNCHANGED <<locals, swapped, nodes, selection, raised, log>>

run == ReadPoints \/ ComputeMatrix \/ SetMatrix \/ AttachMarkups \/ AttachVolume
         \/ Harden \/ Return

Next == SelectMarkups \/ onSelect \/ SelectOutput \/ ToggleAutoHarden
          \/ onApplyButton \/ run

Spec == Init /\ [][Next]_vars

(* ---------------- properties of getMatrixToACPC ---------------- *)
Origin == <<Zero, Zero, Zero>>

\* ac differs from pc and ih is off the line through ac and pc
NonDegenerate(a, p, h) == a # p /\ Cross(VSub(a, p), VSub(h, a)) # Origin

Midpoint(a, p) == [i \in 1..3 |-> Mul(Half, Add(a[i], p[i]))]

Row3(m, i) == <<m[i][1], m[i][2], m[i][3]>>

Column4(m) == <<m[1][4], m[2][4], m[3][4]>>

HalfDistance(a, p) == Mul(Half, Norm(VSub(a, p)))

IsPositive(x) == IsFinite(x) /\ x[1] > 0

AllFinite(m) == \A i \in 1..4 : \A j \in 1..4 : IsFinite(m[i][j])

Returned == matrix # Unbound

\* C1: for a non-degenerate triple the returned matrix maps the midpoint
\* (ac+pc)/2 to the origin, i.e. its translation column is -R*(ac+pc)/2
C1_MidpointToOrigin ==
  (Returned /\ NonDegenerate(ac, pc, ih)) =>
     /\ TransformPoint(matrix, Midpoint(ac, pc)) = Origin
     /\ Column4(matrix) =
          VNeg(MatVec(<<Row3(matrix, 1), Row3(matrix, 2), Row3(matrix, 3)>>,
                      Midpoint(ac, pc)))

C1_Witness ==
  /\ Returned /\ NonDegenerate(ac, pc, ih)
  /\ Midpoint(ac, pc) # Origin
  /\ Column4(matrix) # Origin

\* C2: for a non-degenerate triple the images of ac and pc are (0, +d/2, 0)
\* and (0, -d/2, 0) with d = |ac - pc|
C2_SymmetricOnY ==
  (Returned /\ NonDegenerate(ac, pc, ih)) =>
     /\ TransformPoint(matrix, ac) = <<Zero, HalfDistance(ac, pc), Zero>>
     /\ TransformPoint(matrix, pc) = <<Zero, Neg(HalfDistance(ac, pc)), Zero>>
     /\ IsPositive(HalfDistance(ac, pc))

C2_Witness ==
  /\ Returned /\ NonDegenerate(ac, pc, ih)
  /\ HalfDistance(ac, pc)[3] # 1
  /\ TransformPoint(matrix, ac)[2] = HalfDistance(ac, pc)

\* C3: for a non-degenerate triple the rows of the rotation block have unit
\* norm and are pairwise orthogonal, and the bottom row is [0,0,0,1]
C3_Orthonormal ==
  (Returned /\ NonDegenerate(ac, pc, ih)) =>
     /\ \A i \in 1..3 : Dot(Row3(matrix, i), Row3(matrix, i)) = One
     /\ \A i \in 1..3 : \A j \in 1..3 :
          i # j => Dot(Row3(matrix, i), Row3(matrix, j)) = Zero
     /\ matrix[4] = <<Zero, Zero, Zero, One>>

C3_Witness ==
  /\ Returned /\ NonDegenerate(ac, pc, ih)
  /\ \E i \in 1..3 : \E j \in 1..3 : matrix[i][j][3] # 1

\* C4: for degenerate input (ac = pc, or ih on the line through ac and pc)
\* no matrix with NaN or Inf entries is returned
C4_DegenerateReported ==
  (Returned /\ ~NonDegenerate(ac, pc, ih)) => AllFinite(matrix)

\* C5: exchanging the first two arguments negates the yAxis row, and both
\* matrices map the midpoint (ac+pc)/2 to the origin
C5_SwapNegatesY ==
  (Returned /\ swapped # Unbound /\ NonDegenerate(ac, pc, ih)) =>
     /\ Row3(swapped, 2) = VNeg(Row3(matrix, 2))
     /\ TransformPoint(matrix, Midpoint(ac, pc)) = Origin
     /\ TransformPoint(swapped, Midpoint(ac, pc)) = Origin

C5_Witness ==
  /\ Returned /\ swapped # Unbound /\ NonDegenerate(ac, pc, ih)
  /\ Midpoint(ac, pc) # Origin
  /\ Row3(swapped, 2) # Row3(matrix, 2)

\* C9: for a non-degenerate triple the image of ih has x = 0 and z > 0
C9_MidlineImage ==
  (Returned /\ NonDegenerate(ac, pc, ih)) =>
     /\ TransformPoint(matrix, ih)[1] = Zero
     /\ IsPositive(TransformPoint(matrix, ih)[3])

C9_Witness ==
  /\ Returned /\ NonDegenerate(ac, pc, ih)
  /\ TransformPoint(matrix, ih)[2] # Zero
  /\ IsPositive(TransformPoint(matrix, ih)[3])

\* C6: for ac = (0,a,0), pc = (0,-a,0), ih = (0,0,c) with a, c > 0 the
\* yAxis row is (0,1,0), ac and pc are fixed points of the transform and
\* the image of ih has y = 0
C6_AlreadyAligned ==
  Returned =>
     /\ Row3(matrix, 2) = <<Zero, One, Zero>>
     /\ TransformPoint(matrix, ac) = ac
     /\ TransformPoint(matrix, pc) = pc
     /\ TransformPoint(matrix, ih)[2] = Zero

C6_Witness ==
  /\ Returned
  /\ ac = Point(0, 5, 0) /\ pc = Point(0, -5, 0) /\ ih = Point(0, 0, 10)
  /\ TransformPoint(matrix, ac) = Point(0, 5, 0)

(* ---------------- properties of the widget and of run ---------------- *)
RunOrder ==
  <<"read", "compute", "setMatrix", "attachMarkups", "attachVolume",
    "hardenMarkups", "hardenVolume">>

IsPrefix(s, t) == Len(s) <= Len(t) /\ \A i \in 1..Len(s) : s[i] = t[i]

Logged(name) == \E i \in 1..Len(log) : log[i] = name

HardenedBoth == Logged("hardenMarkups") /\ Logged("hardenVolume")

HardenedAny == Logged("hardenMarkups") \/ Logged("hardenVolume")

Running == pos # "idle"

\* C7: a run on a markups node with fewer or more than three points fails
\* with an error: it never returns normally, computes no matrix and assigns
\* nothing to the transform node, the markups or the volume
C7_RejectsWrongCount ==
  (Running /\ acpcSel # None /\ Len(fids) # 3) =>
     /\ matrix = Unbound
     /\ pos # "done"
     /\ \A i \in 2..7 : ~Logged(RunOrder[i])

\* C8 as stated: the steps of every execution are in the order read,
\* compute, set matrix, attach markups, attach volume, harden, and every
\* execution hardens both nodes if and only if autoHarden is true
C8_Original ==
  /\ IsPrefix(log, RunOrder)
  /\ pos \in {"done", "raised"} => (HardenedBoth <=> autoHarden)

\* C8 amended: the steps an execution takes are an initial segment of that
\* order; hardening happens only if autoHarden is true and only once both
\* nodes are attached to the transform node that carries the new matrix; an
\* execution that returns without raising hardens both nodes if and only if
\* autoHarden is true
C8_OrderAndHarden ==
  /\ IsPrefix(log, RunOrder)
  /\ Running => (HardenedAny => (HardenedBoth /\ autoHarden))
  /\ pos = "done" => (HardenedBoth <=> autoHarden)
  /\ pos = "harden" =>
       /\ outSel # None /\ fidParent = outSel /\ volParent = outSel
       /\ matrix # Unbound /\ tfmMatrix = matrix

C8_Witness == pos = "done" /\ autoHarden /\ log = RunOrder /\ AllFinite(matrix)

\* C10: the Apply button is enabled exactly when a markups node and a
\* volume node are selected, so run is never entered without one of them
C10_ApplyIffBothSelected ==
  /\ applyEnabled <=> (acpcSel # None /\ volSel # None)
  /\ Running => (acpcSel # None /\ volSel # None)

====
